---- MODULE Spec2Model ----
(***************************************************************************)
(* Trust-score recompute pipeline: the scoring engine (trust_score.py),    *)
(* the claim protocol and worker loop (worker_debug.py), the user upsert   *)
(* (db_upsert.py) and the storage triggers (create_schema.py).             *)
(*                                                                         *)
(* Scores are Python floats rounded to two decimals; they are modelled as  *)
(* integers counting hundredths of a point (30.00 points = 3000).          *)
(* Every intermediate value of the engine is a rational whose denominator  *)
(* divides 3 * 10^k, so a rounding to two decimals never meets a tie and   *)
(* the float result equals the exact rational rounded to nearest.          *)
(***************************************************************************)
EXTENDS Integers, Sequences, FiniteSets, TLC

Min(a, b) == IF a <= b THEN a ELSE b
Max(a, b) == IF a >= b THEN a ELSE b

(***************************************************************************)
(* trust_score.py: configuration                                           *)
(***************************************************************************)
MAX_SCORE == 100
PROFILE_MAX == 30
VERIFICATION_MAX == 40
ACTIVITY_MAX == 30
PHOTOS_MAX_POINTS == 20
PHOTOS_CAP == 6
BIO_POINTS == 5
INTERESTS_POINTS == 5
SELFIE_POINTS == 20
ID_POINTS == 20
ACTIVITY_LOGIN_STREAK_MAX == 20
ACTIVITY_STREAK_CAP_DAYS == 30
ACTIVITY_RESPONSE_MAX == 10
ACTIVITY_REPORTS_PENALTY_MAX == 8
ACTIVITY_REPORTS_CAP == 5
DECAY_PER_WEEK == 5
VERIFIED_MIN_SCORE == 85
TRUSTED_MIN_SCORE == 70
ACTIVE_MIN_SCORE == 60
ACTIVE_RECENT_DAYS == 7
\* resp_clamped / 100.0 and the clamp max(0, min(resp, 100))
RESPONSE_PCT_MAX == 100
\* days_inactive // 7
DAYS_PER_WEEK == 7

\* round(x, 2): scores are kept to two decimals, in hundredths of a point
ROUND_DIGITS == 2
Scale == 10 ^ ROUND_DIGITS

(***************************************************************************)
(* Bounds of the model                                                     *)
(***************************************************************************)
\* how far an integer field may lie outside its documented range
Over == 2
\* clock ticks per day (a datetime carries a time of day)
UnitsPerDay == 2
\* reference time and last-active time range over 0 .. MaxDays days
MaxDays == 16

\* round half up of the rational n / d (d > 0) to an integer
Round(n, d) == (2 * n + d) \div (2 * d)

(***************************************************************************)
(* last_active_at values: absent (None), the empty string, a string that   *)
(* is no timestamp, or a timestamp string denoting an instant t (in clock  *)
(* ticks, UTC).                                                            *)
(***************************************************************************)
LA_None == [kind |-> "none", t |-> 0]
LA_Empty == [kind |-> "empty", t |-> 0]
LA_Bad == [kind |-> "bad", t |-> 0]
LA_At(t) == [kind |-> "ts", t |-> t]

\* parse_iso_datetime: the instant of a timestamp string; raises ValueError
\* on a string that neither fromisoformat nor strptime accepts
parse_raises(s) == s.kind \in {"bad", "empty"}
parse_iso_datetime(s) == s.t

\* `if not last_active_iso`: None and "" are falsy
Falsy(s) == s.kind \in {"none", "empty"}

\* (reference_dt - last_active_dt).days: timedelta.days is the floor
DaysBetween(ref, t) == (ref - t) \div UnitsPerDay

\* the profile split of the storage triggers: 15 for photos, 10 for the bio
compute_profile_score_trigger(u) ==
  LET photos_n == Min(u.photos, PHOTOS_CAP) * 15 * Scale
      bio_points == IF u.bio THEN 10 ELSE 0
      interests_points == IF u.interests THEN INTERESTS_POINTS ELSE 0
      total_n == photos_n + (bio_points + interests_points) * Scale * PHOTOS_CAP
      clamped == Max(0, Min(PROFILE_MAX * Scale * PHOTOS_CAP, total_n))
  IN Round(clamped, PHOTOS_CAP)

compute_profile_score(u) ==
  LET photos_n == Min(u.photos, PHOTOS_CAP) * PHOTOS_MAX_POINTS * Scale
      bio_points == IF u.bio THEN BIO_POINTS ELSE 0
      interests_points == IF u.interests THEN INTERESTS_POINTS ELSE 0
      total_n == photos_n + (bio_points + interests_points) * Scale * PHOTOS_CAP
      clamped == Max(0, Min(PROFILE_MAX * Scale * PHOTOS_CAP, total_n))
  IN Round(clamped, PHOTOS_CAP)

compute_verification_score(u) ==
  LET total == (IF u.selfie_verified THEN SELFIE_POINTS ELSE 0)
               + (IF u.id_verified THEN ID_POINTS ELSE 0)
  IN Max(0, Min(VERIFICATION_MAX, total)) * Scale

\* common denominator of the three activity terms
ActDen == ACTIVITY_STREAK_CAP_DAYS * RESPONSE_PCT_MAX * ACTIVITY_REPORTS_CAP

streak_n(u) ==
  Min(u.login_streak_days, ACTIVITY_STREAK_CAP_DAYS) * ACTIVITY_LOGIN_STREAK_MAX
    * Scale * (ActDen \div ACTIVITY_STREAK_CAP_DAYS)

resp_n(u) ==
  Max(0, Min(u.response_rate_pct, RESPONSE_PCT_MAX)) * ACTIVITY_RESPONSE_MAX
    * Scale * (ActDen \div RESPONSE_PCT_MAX)

penalty_n(u) ==
  0 - Min(u.reports_received, ACTIVITY_REPORTS_CAP) * ACTIVITY_REPORTS_PENALTY_MAX
    * Scale * (ActDen \div ACTIVITY_REPORTS_CAP)

\* the clamp without `total = max(-ACTIVITY_REPORTS_PENALTY_MAX, total)`
compute_activity_score_nofloor(u) ==
  LET total_n == streak_n(u) + resp_n(u) + penalty_n(u)
  IN Round(Min(ACTIVITY_MAX * Scale * ActDen, total_n), ActDen)

compute_activity_score(u) ==
  LET total_n == streak_n(u) + resp_n(u) + penalty_n(u)
      lower == Max((0 - ACTIVITY_REPORTS_PENALTY_MAX) * Scale * ActDen, total_n)
      upper == Min(ACTIVITY_MAX * Scale * ActDen, lower)
  IN Round(upper, ActDen)

activity_breakdown(u) ==
  [streak_score |-> Round(streak_n(u), ActDen),
   response_score |-> Round(resp_n(u), ActDen),
   reports_penalty |-> Round(penalty_n(u), ActDen)]

\* a decay charged per started week instead of per full week
decay_of_started(days_inactive) ==
  ((days_inactive + DAYS_PER_WEEK - 1) \div DAYS_PER_WEEK) * DECAY_PER_WEEK * Scale

\* full_weeks * DECAY_PER_WEEK, in hundredths
decay_of(days_inactive) == (days_inactive \div DAYS_PER_WEEK) * DECAY_PER_WEEK * Scale

\* apply_inactivity_decay: (new_score, decay_applied) in hundredths, or the
\* ValueError of parse_iso_datetime
apply_inactivity_decay(base_score, last_active_iso, reference_dt) ==
  IF Falsy(last_active_iso)
  THEN [raised |-> FALSE, new_score |-> Max(0, Min(MAX_SCORE * Scale, base_score)),
        decay |-> 0]
  ELSE IF parse_raises(last_active_iso)
  THEN [raised |-> TRUE, new_score |-> 0, decay |-> 0]
  ELSE LET days_inactive == DaysBetween(reference_dt, parse_iso_datetime(last_active_iso))
           decay == decay_of(days_inactive)
       IN [raised |-> FALSE,
           new_score |-> Min(MAX_SCORE * Scale, Max(0, base_score - decay)),
           decay |-> decay]

\* the three rules as an if / elif chain: the first that applies wins
assign_badges_elif(score, u, reference_dt) ==
  LET recent == IF Falsy(u.last_active_at) THEN FALSE
                ELSE DaysBetween(reference_dt, parse_iso_datetime(u.last_active_at))
                       <= ACTIVE_RECENT_DAYS
  IN IF u.id_verified /\ score >= VERIFIED_MIN_SCORE * Scale THEN {"Verified User"}
     ELSE IF score >= TRUSTED_MIN_SCORE * Scale THEN {"Trusted Member"}
     ELSE IF score >= ACTIVE_MIN_SCORE * Scale /\ recent THEN {"Active Dater"}
     ELSE {}

assign_badges(score, u, reference_dt) ==
  LET recent == IF Falsy(u.last_active_at) THEN FALSE
                ELSE DaysBetween(reference_dt, parse_iso_datetime(u.last_active_at))
                       <= ACTIVE_RECENT_DAYS
  IN (IF u.id_verified /\ score >= VERIFIED_MIN_SCORE * Scale
        THEN {"Verified User"} ELSE {})
     \cup (IF score >= TRUSTED_MIN_SCORE * Scale THEN {"Trusted Member"} ELSE {})
     \cup (IF score >= ACTIVE_MIN_SCORE * Scale /\ recent THEN {"Active Dater"} ELSE {})

ZeroBreakdown == [streak_score |-> 0, response_score |-> 0, reports_penalty |-> 0]

\* no TrustScoreResult yet
NoResult ==
  [status |-> "none", profile_score |-> 0, verification_score |-> 0,
   activity_score |-> 0, raw_total |-> 0, decay_applied |-> 0,
   final_score |-> 0, badges |-> {}, breakdown |-> ZeroBreakdown]

\* compute_trust_score left by the ValueError of parse_iso_datetime
RaisedResult == [NoResult EXCEPT !.status = "raised"]

compute_trust_score(u, reference_dt) ==
  LET profile_score == compute_profile_score(u)
      verification_score == compute_verification_score(u)
      activity_score == compute_activity_score(u)
      raw_total == Max(0, Min(MAX_SCORE * Scale,
                                profile_score + verification_score + activity_score))
      dec == apply_inactivity_decay(raw_total, u.last_active_at, reference_dt)
  IN IF dec.raised
     THEN RaisedResult
     ELSE [status |-> "ok",
           profile_score |-> profile_score,
           verification_score |-> verification_score,
           activity_score |-> activity_score,
           raw_total |-> raw_total,
           decay_applied |-> dec.decay,
           final_score |-> dec.new_score,
           badges |-> assign_badges(dec.new_score, u, reference_dt),
           breakdown |-> activity_breakdown(u)]

(***************************************************************************)
(* Inputs of the scoring engine                                            *)
(***************************************************************************)
PhotosVals == {0 - Over, 0, 1, PHOTOS_CAP - 1, PHOTOS_CAP, PHOTOS_CAP + Over}
StreakVals == {0 - Over, 0, 1, ACTIVITY_STREAK_CAP_DAYS, ACTIVITY_STREAK_CAP_DAYS + Over}
RespVals == {0 - Over, 0, 1, RESPONSE_PCT_MAX, RESPONSE_PCT_MAX + Over}
ReportsVals == {0 - ACTIVITY_REPORTS_CAP * Over, 0, 1, ACTIVITY_REPORTS_CAP,
                ACTIVITY_REPORTS_CAP * Over}

\* instants of the decay runs: every tick of 0 .. MaxDays + 1 days
Instants == 0 .. ((MaxDays + 1) * UnitsPerDay)
\* reference times of the engine runs: day MaxDays, at midnight and one tick later
RefInstants == {MaxDays * UnitsPerDay, MaxDays * UnitsPerDay + 1}
\* last-active days of the engine runs: long ago, around one week ago, now, tomorrow
LastActiveDays ==
  {0, 1, MaxDays - (DAYS_PER_WEEK + 1), MaxDays - DAYS_PER_WEEK, MaxDays - 1, MaxDays,
   MaxDays + 1}
LastActiveVals ==
  {LA_None, LA_Empty, LA_Bad} \cup {LA_At(d * UnitsPerDay) : d \in LastActiveDays}

UserDicts ==
  [photos : PhotosVals, bio : BOOLEAN, interests : BOOLEAN,
   selfie_verified : BOOLEAN, id_verified : BOOLEAN,
   login_streak_days : StreakVals, response_rate_pct : RespVals,
   reports_received : ReportsVals, last_active_at : LastActiveVals]

\* the user dict of a run that has no engine call
NoUserDict ==
  [photos |-> 0, bio |-> FALSE, interests |-> FALSE, selfie_verified |-> FALSE,
   id_verified |-> FALSE, login_streak_days |-> 0, response_rate_pct |-> 0,
   reports_received |-> 0, last_active_at |-> LA_None]

BaseScores == {0, (MAX_SCORE * Scale) \div 2, MAX_SCORE * Scale}
DecayLastActive == {LA_None, LA_Empty, LA_Bad} \cup {LA_At(t) : t \in Instants}
NoDecay == [raised |-> FALSE, new_score |-> 0 - 1, decay |-> 0]

(***************************************************************************)
(* Bounds of the pipeline model                                            *)
(***************************************************************************)
NumWorkers == 2
NumUsers == 1
\* rows of recompute_jobs ever enqueued
MaxJobs == 2
\* calls of upsert_user
MaxUpserts == 1
\* statements that fail and processes that die, together
MaxFaults == 1

Workers == 1 .. NumWorkers
UserIds == 1 .. NumUsers

(***************************************************************************)
(* db_upsert.py and the triggers of create_schema.py                       *)
(***************************************************************************)
\* the user_json dicts handed to upsert_user
In_Zero == NoUserDict
In_Full ==
  [photos |-> PHOTOS_CAP, bio |-> TRUE, interests |-> TRUE, selfie_verified |-> TRUE,
   id_verified |-> TRUE, login_streak_days |-> ACTIVITY_STREAK_CAP_DAYS,
   response_rate_pct |-> RESPONSE_PCT_MAX, reports_received |-> 0,
   last_active_at |-> LA_None]
In_BadDate == [In_Full EXCEPT !.photos = 1, !.last_active_at = LA_Bad]
\* last active one tick less than seven days before midnight of day MaxDays
In_Dated ==
  [In_Full EXCEPT !.last_active_at =
                    LA_At((MaxDays - DAYS_PER_WEEK) * UnitsPerDay + 1)]
UpsertInputs == {In_Zero, In_Full, In_BadDate, In_Dated}

\* interests_count = 5 if interests else 0 (a bool input)
INTERESTS_TRUE_COUNT == 5

map_input_to_row(d) ==
  [photos |-> d.photos,
   bio_filled |-> IF d.bio THEN 1 ELSE 0,
   interests_count |-> IF d.interests THEN INTERESTS_TRUE_COUNT ELSE 0,
   selfie_verified |-> IF d.selfie_verified THEN 1 ELSE 0,
   id_verified |-> IF d.id_verified THEN 1 ELSE 0,
   login_streak |-> d.login_streak_days,
   response_rate_pct |-> d.response_rate_pct,
   reports_count |-> d.reports_received,
   last_active_at |-> d.last_active_at]

\* no users row for the id
NoRow == [absent |-> TRUE]

\* the score expression of trg_compute_trust_on_user_insert / _update, in
\* hundredths (the column keeps the real number as it is)
trigger_score(r) ==
  (IF r.photos < 6 THEN (r.photos * 15 * Scale) \div 6 ELSE 15 * Scale)
  + (IF r.bio_filled = 1 THEN 10 * Scale ELSE 0)
  + (IF r.interests_count < 5 THEN r.interests_count * Scale ELSE 5 * Scale)
  + (IF r.selfie_verified = 1 THEN 20 * Scale ELSE 0)
  + (IF r.id_verified = 1 THEN 20 * Scale ELSE 0)
  + (IF r.login_streak < 10 THEN r.login_streak * Scale ELSE 10 * Scale)
  + (IF r.response_rate_pct < 100 THEN (r.response_rate_pct * Scale) \div 10
     ELSE 10 * Scale)
  + (IF r.reports_count * (0 - 2) < 0 - 10 THEN (0 - 10) * Scale
     ELSE r.reports_count * (0 - 2) * Scale)

\* trust_scores is a rowid table: a new row gets the largest rowid plus one
NewRowid(rows) ==
  IF rows = {} THEN 1
  ELSE 1 + (CHOOSE m \in {r.rowid : r \in rows} : \A r \in rows : r.rowid <= m)

RowsOf(rows, u) == {r \in rows : r.user_id = u}

\* INSERT OR REPLACE INTO trust_scores: the conflicting row is deleted, the
\* new row inserted
insert_or_replace(rows, u, score) ==
  LET kept == rows \ RowsOf(rows, u)
  IN kept \cup {[rowid |-> NewRowid(kept), user_id |-> u, score |-> score]}

\* a persist that leaves the audit INSERT out
insert_audit_skip(a, u, score) == a

\* INSERT INTO trust_score_audit: the id is AUTOINCREMENT
insert_audit(a, u, score) ==
  Append(a, [id |-> Len(a) + 1, user_id |-> u, new_score |-> score])

(***************************************************************************)
(* worker_debug.py                                                         *)
(***************************************************************************)
fetch_user_as_dict(r) ==
  [photos |-> r.photos,
   bio |-> r.bio_filled # 0,
   interests |-> r.interests_count # 0,
   selfie_verified |-> r.selfie_verified # 0,
   id_verified |-> r.id_verified # 0,
   login_streak_days |-> r.login_streak,
   response_rate_pct |-> r.response_rate_pct,
   reports_received |-> r.reports_count,
   last_active_at |-> r.last_active_at]

\* WHERE processed = 0, the test of processing left out
PendingJobs_unprocessed(js) == {j \in DOMAIN js : js[j].processed = 0}

\* WHERE processed = 0 AND processing = 0
PendingJobs(js) == {j \in DOMAIN js : js[j].processed = 0 /\ js[j].processing = 0}

\* ORDER BY enqueued_at ASC LIMIT 1: any pending row of least enqueued_at
SelectPending(js) ==
  {j \in PendingJobs(js) :
     \A k \in PendingJobs(js) : js[j].enqueued_at <= js[k].enqueued_at}

\* a BEGIN that takes no write lock (a deferred BEGIN)
BeginDeferred(w, holder) == TRUE

\* BEGIN IMMEDIATE succeeds when no other connection holds the write lock
BeginImmediate(w, holder) == holder = 0

\* the UPDATE without WHERE id = ?: every pending row is claimed
claim_update_all(js, j, w) ==
  [k \in DOMAIN js |->
     IF js[k].processed = 0 /\ js[k].processing = 0
     THEN [js[k] EXCEPT !.processing = 1, !.processor = w, !.attempts = @ + 1]
     ELSE js[k]]

\* the UPDATE without processor = ?
claim_update_noproc(js, j, w) ==
  [js EXCEPT ![j].processing = 1, ![j].attempts = @ + 1]

\* SET processing = 1, processor = ?, attempts = attempts + 1 WHERE id = ?
claim_update(js, j, w) ==
  [js EXCEPT ![j].processing = 1, ![j].processor = w, ![j].attempts = @ + 1]

\* the ON CONFLICT clause left out and no key to refuse the second row
insert_trust_score(rows, u, score) ==
  rows \cup {[rowid |-> NewRowid(rows), user_id |-> u, score |-> score]}

\* ON CONFLICT(user_id) DO UPDATE SET score = score + excluded.score
upsert_trust_score_add(rows, u, score) ==
  IF RowsOf(rows, u) = {}
  THEN rows \cup {[rowid |-> NewRowid(rows), user_id |-> u, score |-> score]}
  ELSE {IF r.user_id = u THEN [r EXCEPT !.score = @ + score] ELSE r : r \in rows}

\* INSERT INTO trust_scores ... ON CONFLICT(user_id) DO UPDATE SET score
upsert_trust_score(rows, u, score) ==
  IF RowsOf(rows, u) = {}
  THEN rows \cup {[rowid |-> NewRowid(rows), user_id |-> u, score |-> score]}
  ELSE {IF r.user_id = u THEN [r EXCEPT !.score = score] ELSE r : r \in rows}

\* an UPDATE that sets processed = 1 and leaves processing as it is
mark_job_done_claimed(js, j) ==
  [js EXCEPT ![j].processed = 1]

mark_job_done(js, j) ==
  [js EXCEPT ![j].processed = 1, ![j].processing = 0]

\* a failure handler that records the error and leaves the job claimed
mark_job_failed_keep(js, j, e) ==
  [js EXCEPT ![j].last_error = e]

\* a failure handler that does not record the error text
mark_job_failed_noerr(js, j, e) ==
  [js EXCEPT ![j].processed = 2, ![j].processing = 0]

\* a failure handler that puts the job back in the queue
mark_job_failed_requeue(js, j, e) ==
  [js EXCEPT ![j].processed = 0, ![j].last_error = e, ![j].processing = 0]

mark_job_failed(js, j, e) ==
  [js EXCEPT ![j].processed = 2, ![j].last_error = e, ![j].processing = 0]

\* final_score = getattr(r, "final_score", None) or getattr(r, "finalScore", None)
\* or getattr(r, "final", None): a score of 0.0 is falsy and gives None
final_score_is_None(res) == res.final_score = 0

NewJob(u, t) ==
  [user_id |-> u, processing |-> 0, processed |-> 0, processor |-> 0,
   attempts |-> 0, enqueued_at |-> t, last_error |-> ""]

\* what is recorded about the run of one job (not program state)
\*   enq: the users row at the time the job was enqueued
\*   returned: the workers a claim_job call returned the job to
\*   snap, now: the users row fetched for the job, the time of its scoring
\*   wrote, wscore: the job's trust_scores write and its score
\*   changed: that write changed the presence or the score of the user's row
\*   audit: id of the audit row the job appended, 0 when none
\*   err: str(e) of the exception raised while processing the job
\*   markErr: mark_job_failed raised for the job
NoHist ==
  [enq |-> NoRow, returned |-> {}, snap |-> NoRow, now |-> 0, wrote |-> FALSE, wscore |-> 0,
   changed |-> FALSE, audit |-> 0, err |-> "", markErr |-> FALSE]

VARIABLES
  sUser,    \* engine run: the user dict
  sRef,     \* engine run: reference_dt
  sResult,  \* engine run: the TrustScoreResult
  dIn,      \* decay run: base_score, two last_active values, reference_dt
  dOut,     \* decay run: the two results of apply_inactivity_decay
  schema,   \* "ok", or "missing" when the database has no recompute_jobs table
  users,    \* table users: user id -> row or NoRow
  scores,   \* table trust_scores: set of rows
  audit,    \* table trust_score_audit: sequence of rows, by id
  jobs,     \* table recompute_jobs: sequence of rows, by id
  lock,     \* the connection holding the database write lock, 0 when free
  pc,       \* worker -> position in worker_loop / claim_job
  job,      \* worker -> id of the job in hand, 0 when none
  snap,     \* worker -> the users row fetched for the job
  fscore,   \* worker -> final_score extracted from the result
  err,      \* worker -> str(e) of the exception being handled
  hist,     \* job id -> record of its run
  scored,   \* the user ids a trust_scores write was made for
  nUpserts, \* upsert_user calls made
  nFaults   \* failed statements and dead processes so far

svars == <<sUser, sRef, sResult, dIn, dOut>>
dbvars == <<users, scores, audit, jobs, lock>>
wvars == <<pc, job, snap, fscore, err>>
hvars == <<hist, scored, nUpserts, nFaults>>

vars == <<svars, schema, dbvars, wvars, hvars>>

ScoreIdle == sUser = NoUserDict /\ sRef = 0 /\ sResult = NoResult
DecayIdle ==
  /\ dIn = [base |-> 0, a |-> LA_None, b |-> LA_None, ref |-> 0]
  /\ dOut = <<NoDecay, NoDecay>>

\* the database after create_schema and an empty recompute_jobs, workers at
\* the top of worker_loop
PipelineTables ==
  /\ users = [u \in UserIds |-> NoRow]
  /\ scores = {}
  /\ audit = <<>>
  /\ jobs = <<>>
  /\ lock = 0
  /\ pc = [w \in Workers |-> "idle"]
  /\ job = [w \in Workers |-> 0]
  /\ snap = [w \in Workers |-> NoRow]
  /\ fscore = [w \in Workers |-> 0]
  /\ err = [w \in Workers |-> ""]
  /\ hist = <<>>
  /\ scored = {}
  /\ nUpserts = 0
  /\ nFaults = 0

PipelineInit == PipelineTables /\ schema = "ok"

PipelineIdle == PipelineInit

InitScore ==
  /\ sUser \in UserDicts
  /\ sRef \in RefInstants
  /\ sResult = NoResult
  /\ DecayIdle
  /\ PipelineIdle

\* one call compute_trust_score(user, reference_dt)
Compute ==
  /\ sResult.status = "none"
  /\ sResult' = compute_trust_score(sUser, sRef)
  /\ UNCHANGED <<sUser, sRef, dIn, dOut, schema, dbvars, wvars, hvars>>

NextScore == Compute

SpecScore == InitScore /\ [][NextScore]_vars

InitDecay ==
  /\ ScoreIdle
  /\ dIn \in [base : BaseScores, a : DecayLastActive, b : DecayLastActive, ref : Instants]
  /\ dOut = <<NoDecay, NoDecay>>
  /\ PipelineIdle

\* apply_inactivity_decay(base, a, ref) and apply_inactivity_decay(base, b, ref)
Decay ==
  /\ dOut = <<NoDecay, NoDecay>>
  /\ dOut' = <<apply_inactivity_decay(dIn.base, dIn.a, dIn.ref),
               apply_inactivity_decay(dIn.base, dIn.b, dIn.ref)>>
  /\ UNCHANGED <<sUser, sRef, sResult, dIn, schema, dbvars, wvars, hvars>>

NextDecay == Decay

SpecDecay == InitDecay /\ [][NextDecay]_vars

(***************************************************************************)
(* The pipeline: environment                                               *)
(***************************************************************************)
\* enqueue(userId) of the job store: a new pending row. enqueued_at is the
\* clock of the enqueuer, which may or may not have advanced since the last
\* enqueue.
Enqueue(u) ==
  /\ schema = "ok"
  /\ Len(jobs) < MaxJobs
  /\ lock = 0
  /\ \E t \in (IF jobs = <<>> THEN {1}
               ELSE {jobs[Len(jobs)].enqueued_at, jobs[Len(jobs)].enqueued_at + 1}) :
       jobs' = Append(jobs, NewJob(u, t))
  /\ hist' = Append(hist, [NoHist EXCEPT !.enq = users[u]])
  /\ UNCHANGED <<svars, schema, users, scores, audit, lock, wvars, scored, nUpserts, nFaults>>

\* upsert_user(conn, user_json): the INSERT ... ON CONFLICT DO UPDATE on
\* users, the trigger it fires (score row replaced, audit row appended), and
\* the commit, as one transaction
UpsertUser(u, d) ==
  LET row == map_input_to_row(d)
      score == trigger_score(row)
  IN /\ nUpserts < MaxUpserts
     /\ lock = 0
     /\ users' = [users EXCEPT ![u] = row]
     /\ scores' = insert_or_replace(scores, u, score)
     /\ audit' = insert_audit(audit, u, score)
     /\ scored' = scored \cup {u}
     /\ nUpserts' = nUpserts + 1
     /\ UNCHANGED <<svars, schema, jobs, lock, wvars, hist, nFaults>>

(***************************************************************************)
(* The pipeline: claim_job                                                 *)
(***************************************************************************)
\* one more failed statement or dead process
Fault ==
  /\ nFaults < MaxFaults
  /\ nFaults' = nFaults + 1

\* the return of claim_job to worker_loop with no job: sleep, then loop
ReturnNone(w) ==
  /\ pc' = [pc EXCEPT ![w] = "idle"]
  /\ job' = [job EXCEPT ![w] = 0]

\* conn.execute("BEGIN IMMEDIATE;") takes the write lock
ClaimBegin(w) ==
  /\ pc[w] = "idle"
  /\ BeginImmediate(w, lock)
  /\ lock' = w
  /\ pc' = [pc EXCEPT ![w] = "begun"]
  /\ UNCHANGED <<svars, schema, users, scores, audit, jobs, job, snap, fscore, err, hvars>>

\* BEGIN IMMEDIATE waits for the lock another connection holds until the
\* timeout: OperationalError (database is locked), claim_job returns None
ClaimBusy(w) ==
  /\ pc[w] = "idle"
  /\ lock # 0
  /\ ReturnNone(w)
  /\ UNCHANGED <<svars, schema, dbvars, snap, fscore, err, hvars>>

\* the SELECT: a row, or none (commit, return None)
ClaimSelect(w) ==
  /\ pc[w] = "begun"
  /\ schema = "ok"
  /\ IF SelectPending(jobs) = {}
     THEN /\ ReturnNone(w)
          /\ lock' = IF lock = w THEN 0 ELSE lock
     ELSE /\ \E j \in SelectPending(jobs) : job' = [job EXCEPT ![w] = j]
          /\ pc' = [pc EXCEPT ![w] = "selected"]
          /\ UNCHANGED lock
  /\ UNCHANGED <<svars, schema, users, scores, audit, jobs, snap, fscore, err, hvars>>

\* the UPDATE and conn.commit(): the claim is durable, the lock released
ClaimUpdate(w) ==
  /\ pc[w] = "selected"
  /\ jobs' = claim_update(jobs, job[w], w)
  /\ lock' = IF lock = w THEN 0 ELSE lock
  /\ pc' = [pc EXCEPT ![w] = "committed"]
  /\ UNCHANGED <<svars, schema, users, scores, audit, job, snap, fscore, err, hvars>>

\* the SELECT of the claimed row after the commit, and the return of the job
ClaimReturn(w) ==
  /\ pc[w] = "committed"
  /\ pc' = [pc EXCEPT ![w] = "claimed"]
  /\ hist' = [hist EXCEPT ![job[w]].returned = @ \cup {w}]
  /\ UNCHANGED <<svars, schema, dbvars, job, snap, fscore, err, scored, nUpserts, nFaults>>

\* the SELECT on a database without the table raises sqlite3.OperationalError
\* (no such table: recompute_jobs): rollback, log, return None
ClaimNoTable(w) ==
  /\ pc[w] = "begun"
  /\ schema = "missing"
  /\ lock' = IF lock = w THEN 0 ELSE lock
  /\ ReturnNone(w)
  /\ UNCHANGED <<svars, schema, users, scores, audit, jobs, snap, fscore, err, hvars>>

\* a statement of claim_job raises sqlite3.OperationalError: rollback (of
\* what is not yet committed), log, return None
ClaimOperationalError(w) ==
  /\ pc[w] \in {"begun", "selected", "committed"}
  /\ schema = "ok"
  /\ Fault
  /\ lock' = IF lock = w THEN 0 ELSE lock
  /\ ReturnNone(w)
  /\ UNCHANGED <<svars, schema, users, scores, audit, jobs, snap, fscore, err, hist, scored,
                 nUpserts>>

(***************************************************************************)
(* The pipeline: worker_loop, one claimed job                              *)
(***************************************************************************)
\* back to the top of the while loop
LoopAgain(w) ==
  /\ pc' = [pc EXCEPT ![w] = "idle"]
  /\ job' = [job EXCEPT ![w] = 0]
  /\ snap' = [snap EXCEPT ![w] = NoRow]
  /\ fscore' = [fscore EXCEPT ![w] = 0]
  /\ err' = [err EXCEPT ![w] = ""]

\* an exception inside the try block: control goes to the except clause
Raise(w, e) ==
  /\ pc' = [pc EXCEPT ![w] = "failing"]
  /\ err' = [err EXCEPT ![w] = e]
  /\ hist' = [hist EXCEPT ![job[w]].err = e]

\* user = fetch_user_as_dict(conn, user_id)
FetchUser(w) ==
  /\ pc[w] = "claimed"
  /\ snap' = [snap EXCEPT ![w] = users[jobs[job[w]].user_id]]
  /\ hist' = [hist EXCEPT ![job[w]].snap = users[jobs[job[w]].user_id]]
  /\ pc' = [pc EXCEPT ![w] = "fetched"]
  /\ UNCHANGED <<svars, schema, dbvars, job, fscore, err, scored, nUpserts, nFaults>>

\* user is None: mark_job_done, continue
MarkDoneMissing(w) ==
  /\ pc[w] = "fetched"
  /\ snap[w] = NoRow
  /\ lock = 0
  /\ jobs' = mark_job_done(jobs, job[w])
  /\ LoopAgain(w)
  /\ UNCHANGED <<svars, schema, users, scores, audit, lock, hvars>>

\* compute_trust_score(user) at the current time, and the extraction of
\* final_score: a result, a ValueError, or the RuntimeError for None
ComputeScore(w) ==
  /\ pc[w] = "fetched"
  /\ snap[w] # NoRow
  /\ \E now \in RefInstants :
       LET res == compute_trust_score(fetch_user_as_dict(snap[w]), now)
       IN IF res.status = "raised"
          THEN Raise(w, "Unrecognized ISO datetime") /\ UNCHANGED fscore
          ELSE IF final_score_is_None(res)
          THEN Raise(w, "final_score is None") /\ UNCHANGED fscore
          ELSE /\ fscore' = [fscore EXCEPT ![w] = res.final_score]
               /\ pc' = [pc EXCEPT ![w] = "computed"]
               /\ hist' = [hist EXCEPT ![job[w]].now = now]
               /\ UNCHANGED err
  /\ UNCHANGED <<svars, schema, dbvars, job, snap, scored, nUpserts, nFaults>>

\* upsert_trust_score_and_audit, first statement. The connection is opened
\* with isolation_level=None: the statement commits on its own.
UpsertScore(w) ==
  LET u == jobs[job[w]].user_id
  IN /\ pc[w] = "computed"
     /\ lock = 0
     /\ scores' = upsert_trust_score(scores, u, fscore[w])
     /\ hist' = [hist EXCEPT ![job[w]].wrote = TRUE,
                             ![job[w]].wscore = fscore[w],
                             ![job[w]].changed =
                                \A r \in RowsOf(scores, u) : r.score # fscore[w]]
     /\ scored' = scored \cup {u}
     /\ pc' = [pc EXCEPT ![w] = "score_written"]
     /\ UNCHANGED <<svars, schema, users, audit, jobs, lock, job, snap, fscore, err,
                    nUpserts, nFaults>>

\* upsert_trust_score_and_audit, second statement, and the commit that has
\* nothing left to commit
InsertAudit(w) ==
  /\ pc[w] = "score_written"
  /\ lock = 0
  /\ audit' = insert_audit(audit, jobs[job[w]].user_id, fscore[w])
  /\ hist' = [hist EXCEPT ![job[w]].audit = Len(audit) + 1]
  /\ pc' = [pc EXCEPT ![w] = "persisted"]
  /\ UNCHANGED <<svars, schema, users, scores, jobs, lock, job, snap, fscore, err,
                 scored, nUpserts, nFaults>>

\* mark_job_done(conn, job_id) after the persist
MarkDone(w) ==
  /\ pc[w] = "persisted"
  /\ lock = 0
  /\ jobs' = mark_job_done(jobs, job[w])
  /\ LoopAgain(w)
  /\ UNCHANGED <<svars, schema, users, scores, audit, lock, hvars>>

\* a statement of the try block raises (database locked past the timeout,
\* disk I/O error): the SELECT of the fetch, either INSERT of the persist,
\* the UPDATE of mark_job_done
StorageError(w) ==
  /\ \/ pc[w] \in {"claimed", "computed", "score_written", "persisted"}
     \/ pc[w] = "fetched" /\ snap[w] = NoRow
  /\ Fault
  /\ Raise(w, "OperationalError")
  /\ UNCHANGED <<svars, schema, dbvars, job, snap, fscore, scored, nUpserts>>

\* except Exception: mark_job_failed(conn, job_id, str(e))
MarkFailed(w) ==
  /\ pc[w] = "failing"
  /\ lock = 0
  /\ jobs' = mark_job_failed(jobs, job[w], err[w])
  /\ LoopAgain(w)
  /\ UNCHANGED <<svars, schema, users, scores, audit, lock, hvars>>

\* mark_job_failed raises: logged ("failed to mark job failed"), swallowed
MarkFailedError(w) ==
  /\ pc[w] = "failing"
  /\ Fault
  /\ hist' = [hist EXCEPT ![job[w]].markErr = TRUE]
  /\ LoopAgain(w)
  /\ UNCHANGED <<svars, schema, dbvars, scored, nUpserts>>

\* the worker process ends (killed, or left worker_loop through an exception
\* that is no sqlite3.OperationalError): an open transaction is rolled back (a job
\* selected in it is not claimed), the job in hand stays as the last
\* committed statement left it
Crash(w) ==
  /\ pc[w] # "crashed"
  /\ pc' = [pc EXCEPT ![w] = "crashed"]
  /\ lock' = IF lock = w THEN 0 ELSE lock
  /\ job' = [job EXCEPT ![w] = IF pc[w] = "selected" THEN 0 ELSE @]
  /\ snap' = [snap EXCEPT ![w] = NoRow]
  /\ fscore' = [fscore EXCEPT ![w] = 0]
  /\ err' = [err EXCEPT ![w] = ""]
  /\ Fault
  /\ UNCHANGED <<svars, schema, users, scores, audit, jobs, hist, scored, nUpserts>>

\* the database as create_schema and an enqueuer's schema left it
InitClaim == ScoreIdle /\ DecayIdle /\ PipelineInit

\* the same, or the database as create_schema alone left it
Init == ScoreIdle /\ DecayIdle /\ PipelineTables /\ schema \in {"ok", "missing"}

\* the steps of the code when no statement fails and no process dies
NextNoFault ==
  \/ \E u \in UserIds : Enqueue(u)
  \/ \E u \in UserIds, d \in UpsertInputs : UpsertUser(u, d)
  \/ \E w \in Workers : ClaimBegin(w)
  \/ \E w \in Workers : ClaimBusy(w)
  \/ \E w \in Workers : ClaimSelect(w)
  \/ \E w \in Workers : ClaimUpdate(w)
  \/ \E w \in Workers : ClaimReturn(w)
  \/ \E w \in Workers : FetchUser(w)
  \/ \E w \in Workers : MarkDoneMissing(w)
  \/ \E w \in Workers : ComputeScore(w)
  \/ \E w \in Workers : UpsertScore(w)
  \/ \E w \in Workers : InsertAudit(w)
  \/ \E w \in Workers : MarkDone(w)
  \/ \E w \in Workers : MarkFailed(w)

NextFault ==
  \/ \E w \in Workers : ClaimNoTable(w)
  \/ \E w \in Workers : ClaimOperationalError(w)
  \/ \E w \in Workers : StorageError(w)
  \/ \E w \in Workers : MarkFailedError(w)
  \/ \E w \in Workers : Crash(w)

Next == NextNoFault \/ NextFault

\* the claim protocol alone: enqueues and workers on a database without
\* users, where every claimed job is marked done at once
NextClaim ==
  \/ \E u \in UserIds : Enqueue(u)
  \/ \E w \in Workers : ClaimBegin(w)
  \/ \E w \in Workers : ClaimBusy(w)
  \/ \E w \in Workers : ClaimSelect(w)
  \/ \E w \in Workers : ClaimUpdate(w)
  \/ \E w \in Workers : ClaimReturn(w)
  \/ \E w \in Workers : FetchUser(w)
  \/ \E w \in Workers : MarkDoneMissing(w)

SpecClaim == InitClaim /\ [][NextClaim]_vars

\* the whole pipeline, with storage errors and crashes
Spec == Init /\ [][Next]_vars

\* the steps of worker w that wait for nothing: the statements inside the
\* transaction of claim_job, the reads, the engine call
WorkerRuns(w) ==
  \/ ClaimSelect(w)
  \/ ClaimUpdate(w)
  \/ ClaimReturn(w)
  \/ FetchUser(w)
  \/ ComputeScore(w)

\* the steps of worker w that take the write lock: BEGIN IMMEDIATE and the
\* autocommit writes. The statement waits (sqlite3.connect timeout) while
\* another connection holds the lock and goes through once the lock is free.
WorkerWrites(w) ==
  \/ ClaimBegin(w)
  \/ MarkDoneMissing(w)
  \/ UpsertScore(w)
  \/ InsertAudit(w)
  \/ MarkDone(w)
  \/ MarkFailed(w)

\* workers that keep running: a worker takes a step it can take, and a
\* write that finds the lock free again and again is not kept waiting for
\* ever (to wait past the timeout would be a storage error)
WorkersFair ==
  \A w \in Workers : WF_vars(WorkerRuns(w)) /\ SF_vars(WorkerWrites(w))

\* the pipeline without storage errors and crashes, workers kept running
SpecLive == InitClaim /\ [][NextNoFault]_vars /\ WorkersFair

(***************************************************************************)
(* Properties of the pipeline                                              *)
(***************************************************************************)
JobIds == DOMAIN jobs

\* the workers whose claim_job call has committed processing = 1 on job j
\* and has not returned yet
Committing(j) == {w \in Workers : job[w] = j /\ pc[w] = "committed"}

\* the workers that have job j in hand
Holders(j) == {w \in Workers : job[w] = j}

\* C1: of the claim_job calls of N >= 2 workers racing for a pending job, in
\* every interleaving exactly one sets processing = 1 on it and gets it
\* returned; no other call returns it (each returns None or another job).
C1_ClaimExclusive ==
  \A j \in JobIds :
    /\ jobs[j].attempts <= 1
    /\ Cardinality(hist[j].returned \cup Committing(j)) <= 1
    /\ jobs[j].attempts = 1 =>
         hist[j].returned \cup Committing(j) = {jobs[j].processor}
    /\ jobs[j].attempts = 0 =>
         jobs[j].processing = 0 /\ hist[j].returned \cup Committing(j) = {}

\* two calls in progress on the single job: one has claimed it, the other
\* holds the lock and finds no pending row
C1_Witness ==
  /\ Len(jobs) = 1
  /\ \E w1, w2 \in Workers :
       /\ pc[w1] = "committed" /\ job[w1] = 1 /\ jobs[1].processing = 1
       /\ pc[w2] = "begun" /\ SelectPending(jobs) = {}

\* C2: once a job's processed is 1 or 2 it never changes, and processing
\* goes from 1 to 0 only in a step that leaves processed at 1 or 2.
C2_JobMonotonic ==
  [][\A j \in JobIds :
       /\ jobs[j].processed \in {1, 2} => jobs'[j].processed = jobs[j].processed
       /\ (jobs[j].processing = 1 /\ jobs'[j].processing = 0)
            => jobs'[j].processed \in {1, 2}]_vars

\* one job done after its persist, one job failed, both released
C2_Witness ==
  /\ \E j \in JobIds :
       jobs[j].processed = 1 /\ jobs[j].processing = 0 /\ hist[j].audit # 0
  /\ \E j \in JobIds :
       jobs[j].processed = 2 /\ jobs[j].processing = 0 /\ jobs[j].attempts = 1

\* C3: once the worker has left upsert_trust_score_and_audit for a job (by
\* return, by an exception or by dying), the job's trust_scores write is
\* there if and only if its audit row is.
C3_ScoreAuditAtomic ==
  \A j \in JobIds :
    (\A w \in Holders(j) : pc[w] # "score_written")
      => (hist[j].wrote <=> hist[j].audit # 0)

\* C4: a job that ended with processed = 2 has not changed the trust_scores
\* row of its user (neither its presence nor its score).
C4_FailedJobKeepsScore ==
  \A j \in JobIds : jobs[j].processed = 2 => ~hist[j].changed

\* C5 as claimed: a job whose fetch, compute or persist raised, once its
\* worker has left it, has processed = 2, processing = 0 and last_error set
\* to the error text.
C5_ErrorIsTerminalFailure ==
  \A j \in JobIds :
    (hist[j].err # "" /\ Holders(j) = {})
      => /\ jobs[j].processed = 2
         /\ jobs[j].processing = 0
         /\ jobs[j].last_error = hist[j].err

\* C5 as amended: a worker holding a job that raised is in the except clause
\* (or dead); once it has left the job and is back in the loop, the job has
\* processed = 2, processing = 0 and last_error set to the error text when
\* mark_job_failed succeeded, and is left claimed (processing = 1,
\* processed = 0, no last_error) when mark_job_failed raised.
C5_ErrorHandled ==
  \A j \in JobIds :
    hist[j].err # "" =>
      /\ \A w \in Holders(j) : pc[w] \in {"failing", "crashed"}
      /\ Holders(j) = {} =>
           IF hist[j].markErr
           THEN /\ jobs[j].processed = 0
                /\ jobs[j].processing = 1
                /\ jobs[j].last_error = ""
           ELSE /\ jobs[j].processed = 2
                /\ jobs[j].processing = 0
                /\ jobs[j].last_error = hist[j].err

\* the RuntimeError of a score of 0 recorded on a failed job, its worker
\* back in the loop
C5_Witness ==
  \E j \in JobIds :
    /\ hist[j].err = "final_score is None"
    /\ jobs[j].processed = 2 /\ jobs[j].processing = 0
    /\ jobs[j].last_error = "final_score is None"
    /\ \E w \in Workers : jobs[j].processor = w /\ pc[w] = "idle"

\* C6: every step that creates or changes a users row leaves a job of that
\* user with processing = 0 and processed = 0.
C6_EnqueueOnChange ==
  [][\A u \in UserIds :
       users'[u] # users[u] =>
         \E j \in DOMAIN jobs' :
           /\ jobs'[j].user_id = u
           /\ jobs'[j].processing = 0
           /\ jobs'[j].processed = 0]_vars

\* C7: trust_scores never holds two rows of one user id, and holds one row
\* for every user a score was ever written for (by a trigger or by a job).
C7_OneScorePerUser ==
  \A u \in UserIds :
    /\ Cardinality(RowsOf(scores, u)) <= 1
    /\ u \in scored => Cardinality(RowsOf(scores, u)) = 1

\* a job has overwritten the score the trigger had written for its user
C7_Witness ==
  \E j \in JobIds :
    /\ hist[j].wrote /\ hist[j].changed
    /\ nUpserts >= 1
    /\ \E r \in scores : r.user_id = jobs[j].user_id /\ r.score = hist[j].wscore

\* the audit rows only grow at the end (holds of every step)
AuditAppendOnly ==
  [][/\ Len(audit') >= Len(audit)
     /\ \A i \in 1 .. Len(audit) : audit'[i] = audit[i]]_vars

\* C8: the audit rows are numbered as appended, and every score a job wrote
\* to trust_scores has, once the worker has left the persist, exactly one
\* audit row of that job, with new_score equal to the score written.
C8_AuditRowPerScore ==
  /\ \A i \in 1 .. Len(audit) : audit[i].id = i
  /\ \A j \in JobIds :
       (hist[j].wrote /\ \A w \in Holders(j) : pc[w] # "score_written")
         => /\ hist[j].audit \in 1 .. Len(audit)
            /\ audit[hist[j].audit].user_id = jobs[j].user_id
            /\ audit[hist[j].audit].new_score = hist[j].wscore

\* job j has been scored from the same users row at the same reference time
\* as job k of the same user
SameRun(j, k) ==
  /\ j # k
  /\ jobs[j].user_id = jobs[k].user_id
  /\ hist[j].snap = hist[k].snap
  /\ hist[j].now = hist[k].now

\* C13: when a job writes its score after another job of the same user that
\* was scored from an equal snapshot at an equal reference time has written
\* its own, the user's trust_scores row holds the score the first run wrote,
\* no row is added, and a row that still held that score is left as it was.
C13_Idempotent ==
  [][\A j, k \in JobIds :
       (/\ ~hist[j].wrote /\ hist'[j].wrote
        /\ hist[k].wrote
        /\ SameRun(j, k))
         => /\ \A r \in RowsOf(scores', jobs[j].user_id) : r.score = hist[k].wscore
            /\ Cardinality(RowsOf(scores', jobs[j].user_id)) = 1
            /\ Cardinality(scores') = Cardinality(scores)
            /\ (\A r \in RowsOf(scores, jobs[j].user_id) : r.score = hist[k].wscore)
                 => scores' = scores]_vars

\* two jobs of one user, scored from the dated snapshot at the same time,
\* have both written; the row holds their score
C13_Witness ==
  \E j, k \in JobIds :
    /\ j < k
    /\ hist[j].wrote /\ hist[k].wrote
    /\ jobs[j].user_id = jobs[k].user_id
    /\ hist[j].snap # NoRow /\ hist[j].snap = hist[k].snap
    /\ hist[j].snap.last_active_at.kind = "ts"
    /\ hist[j].now = hist[k].now
    /\ hist[j].wscore = hist[k].wscore
    /\ \E r \in scores : r.user_id = jobs[j].user_id /\ r.score = hist[k].wscore

\* the workers that have job j in hand as claimed (past the UPDATE)
Owners(j) == {w \in Holders(j) : pc[w] # "selected"}

\* the worker whose step marks job j done or failed: it returns to the top
\* of the loop with the job out of hand
Marker(j) == {w \in Holders(j) : job'[w] = 0 /\ pc'[w] = "idle"}

\* C16: a job with processing = 1 has processed = 0 and one owner, the
\* worker named in processor, and no other worker has it in hand; attempts
\* never exceeds 1; processor never changes once set; a job is marked done
\* or failed only by a step of the worker that claimed it.
C16_Ownership ==
  /\ [](\A j \in JobIds :
          /\ jobs[j].attempts <= 1
          /\ Owners(j) \subseteq {jobs[j].processor}
          /\ jobs[j].processing = 1 =>
               /\ jobs[j].processed = 0
               /\ jobs[j].processor \in Workers
               /\ jobs[j].attempts = 1)
  /\ [][\A j \in JobIds :
          /\ jobs[j].processor # 0 => jobs'[j].processor = jobs[j].processor
          /\ jobs'[j].processed # jobs[j].processed =>
               /\ jobs[j].processing = 1
               /\ Marker(j) = {jobs[j].processor}]_vars

\* one worker in the middle of the persist of its job, a job of the other
\* worker done
C16_Witness ==
  \E j, k \in JobIds :
    /\ jobs[j].processing = 1 /\ jobs[j].processed = 0
    /\ Owners(j) = {jobs[j].processor}
    /\ pc[jobs[j].processor] = "score_written"
    /\ jobs[k].processed = 1 /\ jobs[k].processing = 0
    /\ jobs[k].processor \in Workers \ {jobs[j].processor}

\* job j gets claimed in this step
ClaimedNow(j) == jobs[j].processing = 0 /\ jobs'[j].processing = 1

\* no pending job is claimed while a pending job of smaller enqueue time
\* exists (holds of every step)
ClaimOldestTime ==
  [][\A j \in JobIds :
       ClaimedNow(j) =>
         \A k \in PendingJobs(jobs) : jobs[j].enqueued_at <= jobs[k].enqueued_at]_vars

\* C17: the job a claim takes has the smallest enqueue time of the pending
\* jobs and, among those of equal enqueue time, the smallest id.
C17_ClaimOrder ==
  [][\A j \in JobIds :
       ClaimedNow(j) =>
         \A k \in PendingJobs(jobs) :
           \/ jobs[j].enqueued_at < jobs[k].enqueued_at
           \/ jobs[j].enqueued_at = jobs[k].enqueued_at /\ j <= k]_vars

\* this step is a step of worker w inside claim_job
ClaimStep(w) ==
  /\ pc[w] \in {"idle", "begun", "selected", "committed"}
  /\ pc'[w] # pc[w]
  /\ pc'[w] # "crashed"

\* C18: a claim_job call changes no table but recompute_jobs; its one write
\* changes one row, the job it returns, to processing = 1, processor = the
\* caller, attempts + 1, every other column and row as before; a call that
\* finds no pending job returns none and changes nothing.
C18_ClaimEffect ==
  [][\A w \in Workers :
       ClaimStep(w) =>
         /\ users' = users /\ scores' = scores /\ audit' = audit
         /\ IF pc[w] = "selected" /\ pc'[w] = "committed"
            THEN /\ job'[w] = job[w]
                 /\ DOMAIN jobs' = DOMAIN jobs
                 /\ \A k \in JobIds \ {job[w]} : jobs'[k] = jobs[k]
                 /\ jobs'[job[w]] =
                      [jobs[job[w]] EXCEPT !.processing = 1, !.processor = w,
                                           !.attempts = jobs[job[w]].attempts + 1]
                 /\ jobs[job[w]].processing = 0 /\ jobs[job[w]].processed = 0
            ELSE jobs' = jobs
         /\ pc'[w] = "claimed" =>
              /\ jobs[job[w]].processing = 1 /\ jobs[job[w]].processor = w
         /\ (pc[w] = "begun" /\ PendingJobs(jobs) = {}) =>
              pc'[w] = "idle" /\ job'[w] = 0]_vars

\* a claim just committed next to a pending job it left alone, on a
\* database with a user and a score
C18_Witness ==
  \E w \in Workers, k \in JobIds :
    /\ pc[w] = "committed"
    /\ jobs[job[w]].processing = 1 /\ jobs[job[w]].processor = w
    /\ jobs[job[w]].attempts = 1
    /\ k \in PendingJobs(jobs) /\ jobs[k].attempts = 0 /\ jobs[k].processor = 0
    /\ scores # {} /\ audit # <<>>

\* this step is the return of worker w's claim_job call through its
\* except sqlite3.OperationalError clause
ClaimErrorReturn(w) ==
  /\ pc[w] \in {"begun", "selected", "committed"}
  /\ pc'[w] = "idle"
  /\ nFaults' = nFaults + 1

\* C19: a claim attempt that hits a busy / locked error returns none, with
\* the worker back at the top of its loop, and leaves the job rows as they
\* were before the attempt: the row the attempt had selected is pending and
\* unclaimed as before.
C19_ContentionRecovered ==
  [][\A w \in Workers :
       ClaimErrorReturn(w) =>
         /\ job'[w] = 0
         /\ jobs' = jobs
         /\ job[w] # 0 =>
              /\ jobs'[job[w]].processing = 0
              /\ jobs'[job[w]].processor = 0
              /\ jobs'[job[w]].attempts = 0]_vars

\* C20: on a database without the recompute_jobs table, a worker whose
\* claim attempt has begun leaves the attempt only by terminating: the
\* error is not turned into another round of polling.
C20_FatalEndsWorker ==
  [][\A w \in Workers :
       (schema = "missing" /\ pc[w] = "begun" /\ pc'[w] # "begun")
         => pc'[w] = "crashed"]_vars

\* this step is a step of worker w that found no users row for its job and
\* in which no statement failed and no process died
VanishedStep(w) ==
  /\ pc[w] = "fetched"
  /\ snap[w] = NoRow
  /\ pc'[w] # pc[w]
  /\ nFaults' = nFaults

\* C21: when the fetch for a claimed job finds no users row, the worker's
\* next step marks the job done (processed = 1, processing = 0) and leaves
\* trust_scores and trust_score_audit as they are; the engine is not called
\* for the job and the job writes no score row and no audit row.
C21_VanishedUser ==
  /\ [](\A j \in JobIds :
          (hist[j].snap = NoRow /\ jobs[j].processed = 1) =>
            /\ jobs[j].processing = 0
            /\ hist[j].now = 0 /\ hist[j].err = ""
            /\ ~hist[j].wrote /\ hist[j].audit = 0)
  /\ [][\A w \in Workers :
          VanishedStep(w) =>
            /\ jobs' = [jobs EXCEPT ![job[w]].processed = 1,
                                    ![job[w]].processing = 0]
            /\ scores' = scores /\ audit' = audit
            /\ hist' = hist
            /\ pc'[w] = "idle"]_vars

\* a job claimed and fetched for a user without a row is done, next to a
\* score another path wrote for that user afterwards
C21_Witness ==
  \E j \in JobIds :
    /\ hist[j].returned # {} /\ hist[j].snap = NoRow
    /\ jobs[j].processed = 1 /\ jobs[j].processing = 0
    /\ jobs[j].attempts = 1
    /\ scores # {} /\ users[jobs[j].user_id] # NoRow

\* job j is PENDING
IsPending(j) == jobs[j].processed = 0 /\ jobs[j].processing = 0

\* job j was left claimed by a worker that died with it
Abandoned(j) ==
  /\ jobs[j].processing = 1
  /\ jobs[j].processor \in Workers
  /\ pc[jobs[j].processor] = "crashed"

\* C22: no step takes a job that is not pending back to pending; a claim
\* takes a pending job only, so a job done or failed keeps its row for good
\* and is in no worker's hand again; a job left with processing = 1 by a
\* worker that died keeps its row for good and no other worker ever has it
\* in hand.
C22_NoReturnToPending ==
  [][\A j \in JobIds :
       /\ ~IsPending(j) => ~(jobs'[j].processed = 0 /\ jobs'[j].processing = 0)
       /\ (jobs'[j].processing = 1 /\ jobs[j].processing = 0) => IsPending(j)
       /\ jobs[j].processed # 0 =>
            /\ jobs'[j] = jobs[j]
            /\ \A w \in Workers : job'[w] = j => job[w] = j
       /\ Abandoned(j) =>
            /\ jobs'[j] = jobs[j]
            /\ \A w \in Workers : job'[w] = j => w = jobs[j].processor]_vars

\* a job abandoned by a dead worker is still claimed after the other worker
\* has claimed and finished a job enqueued after it
C22_Witness ==
  \E j, k \in JobIds :
    /\ Abandoned(j) /\ jobs[j].processed = 0
    /\ j < k /\ jobs[k].processed # 0 /\ jobs[k].processing = 0
    /\ jobs[k].processor \in Workers \ {jobs[j].processor}
    /\ pc[jobs[k].processor] = "begun"

\* the worker whose step sets processed = 1 on job j
Finisher(j) ==
  {w \in Workers : job[w] = j /\ jobs[j].processed = 0 /\ jobs'[j].processed = 1}

\* job j has its score and its audit row persisted: the score written to
\* trust_scores is the final score of the engine on the users row fetched
\* for the job, and the audit row the job appended carries that score
Persisted(j) ==
  /\ hist[j].wrote
  /\ hist[j].wscore =
       compute_trust_score(fetch_user_as_dict(hist[j].snap), hist[j].now).final_score
  /\ jobs[j].user_id \in scored
  /\ RowsOf(scores, jobs[j].user_id) # {}
  /\ hist[j].audit \in DOMAIN audit
  /\ audit[hist[j].audit].user_id = jobs[j].user_id
  /\ audit[hist[j].audit].new_score = hist[j].wscore

\* C24: a job whose fetch found the users row is done only with its score
\* and audit row persisted, crashes and storage errors included; the row
\* the score is computed from is the users row as it is when the worker
\* fetches it after the claim; the step that sets processed = 1 is taken by
\* the worker after its persist, score and audit row already written.
C24_PersistBeforeDone ==
  /\ [](\A j \in JobIds :
          (jobs[j].processed = 1 /\ hist[j].snap # NoRow) => Persisted(j))
  /\ [][/\ \A w \in Workers :
             (pc[w] = "claimed" /\ pc'[w] = "fetched") =>
               /\ snap'[w] = users[jobs[job[w]].user_id]
               /\ hist'[job[w]].snap = snap'[w]
               /\ jobs[job[w]].processing = 1
        /\ \A j \in JobIds : \A w \in Finisher(j) :
             hist[j].snap # NoRow =>
               /\ pc[w] = "persisted" /\ snap[w] = hist[j].snap
               /\ Persisted(j)]_vars

\* a job enqueued before its user had a row is done, scored from the row
\* the worker fetched, after a crash of the other worker
C24_Witness ==
  \E j \in JobIds :
    /\ jobs[j].processed = 1 /\ jobs[j].processing = 0
    /\ hist[j].snap # NoRow /\ hist[j].enq # hist[j].snap
    /\ hist[j].wscore > 0 /\ audit[hist[j].audit].new_score = hist[j].wscore
    /\ \E w \in Workers : pc[w] = "crashed"

\* this step is an upsert_user call for user u: the trigger has written the
\* user's score row and appended the audit row
TriggerFired(u) ==
  /\ nUpserts' = nUpserts + 1
  /\ audit'[Len(audit')].user_id = u

\* C25: for a users row without last-active timestamp, the score the
\* trigger writes to trust_scores on the insert or update of the row is the
\* final score compute_trust_score returns for the attributes of that row,
\* at any reference time.
C25_FormulasAgree ==
  [][\A u \in UserIds :
       (TriggerFired(u) /\ Falsy(users'[u].last_active_at)) =>
         \A r \in RowsOf(scores', u), now \in RefInstants :
           r.score = compute_trust_score(fetch_user_as_dict(users'[u]), now).final_score]_vars

\* C26: a claim_job call returns a job exactly when it has committed
\* processing = 1 on that job: a call that has committed its claim and
\* returns (the process not dying) returns that job to its worker, never
\* none, and a call returns a job only after that commit.
C26_CommittedClaimReturned ==
  [][\A w \in Workers :
       /\ (pc[w] = "committed" /\ pc'[w] \notin {"committed", "crashed"}) =>
            /\ pc'[w] = "claimed"
            /\ job'[w] = job[w]
            /\ w \in hist'[job[w]].returned
       /\ (pc[w] # "claimed" /\ pc'[w] = "claimed") =>
            /\ pc[w] = "committed"
            /\ jobs[job'[w]].processing = 1
            /\ jobs[job'[w]].processor = w]_vars

\* job j is DONE or FAILED and in no worker's claim
Terminal(j) == jobs[j].processed \in {1, 2} /\ jobs[j].processing = 0

\* job j has been claimed: the UPDATE of claim_job has named its worker and
\* counted the attempt
WasClaimed(j) == jobs[j].processor \in Workers /\ jobs[j].attempts >= 1

\* C27: with workers that keep running, no crash and no storage error, a
\* pending job is eventually claimed and eventually done or failed with
\* processing = 0: from every state where it is pending, a state follows
\* where it has been claimed by a worker and is terminal.
C27_Progress ==
  \A j \in 1 .. MaxJobs :
    (j \in JobIds /\ IsPending(j)) ~> (j \in JobIds /\ WasClaimed(j) /\ Terminal(j))

\* two jobs claimed by different workers have both ended, one done and one
\* failed
C27_Witness ==
  \E j, k \in JobIds :
    /\ jobs[j].processed = 1 /\ jobs[k].processed = 2
    /\ jobs[j].processing = 0 /\ jobs[k].processing = 0
    /\ jobs[j].attempts = 1 /\ jobs[k].attempts = 1
    /\ jobs[j].processor # jobs[k].processor

(***************************************************************************)
(* Properties of the scoring engine                                        *)
(***************************************************************************)
\* C9: whenever compute_trust_score returns a result, for every user dict
\* (negative and oversized integer fields included) and reference time,
\* profile_score is in [0,30], verification_score in [0,40], activity_score
\* in [-8,30], raw_total in [0,100] and final_score in [0,100].
C9_ComponentBounds ==
  sResult.status = "ok" =>
    /\ 0 <= sResult.profile_score /\ sResult.profile_score <= 30 * Scale
    /\ 0 <= sResult.verification_score /\ sResult.verification_score <= 40 * Scale
    /\ (0 - 8) * Scale <= sResult.activity_score /\ sResult.activity_score <= 30 * Scale
    /\ 0 <= sResult.raw_total /\ sResult.raw_total <= 100 * Scale
    /\ 0 <= sResult.final_score /\ sResult.final_score <= 100 * Scale

\* a result for negative photos and streak and oversized reports, with the
\* activity score at its floor
C9_Witness ==
  /\ sResult.status = "ok"
  /\ sUser.photos < 0 /\ sUser.login_streak_days < 0
  /\ sUser.reports_received > ACTIVITY_REPORTS_CAP
  /\ sUser.response_rate_pct < 0
  /\ sResult.activity_score = (0 - 8) * Scale
  /\ sResult.profile_score = 0

\* clamp(x, lo, hi) as the claims write it
Clamp(x, lo, hi) == IF x < lo THEN lo ELSE IF x > hi THEN hi ELSE x

\* r hundredths is the two-decimal value nearest to the rational n / d points
Nearest(r, n, d) ==
  LET diff == r * d - n * 100
  IN 2 * diff <= d /\ 2 * (0 - diff) <= d

\* the components of the documented formula, as numerators over 6 and over 150
ProfileOver6(u) ==
  Clamp((IF u.photos < 6 THEN u.photos ELSE 6) * 20
          + 6 * ((IF u.bio THEN 5 ELSE 0) + (IF u.interests THEN 5 ELSE 0)),
        0, 6 * 30)
VerificationPoints(u) ==
  Clamp((IF u.selfie_verified THEN 20 ELSE 0) + (IF u.id_verified THEN 20 ELSE 0), 0, 40)
ActivityOver150(u) ==
  Clamp(5 * 20 * (IF u.login_streak_days < 30 THEN u.login_streak_days ELSE 30)
          + 15 * Clamp(u.response_rate_pct, 0, 100)
          - 30 * 8 * (IF u.reports_received < 5 THEN u.reports_received ELSE 5),
        150 * (0 - 8), 150 * 30)

\* C11: every result of compute_trust_score has profile, verification and
\* activity equal to the documented formulas (to two decimals), raw_total =
\* clamp(profile + verification + activity, 0, 100) and final =
\* clamp(raw_total - decay, 0, 100); the all-maximal user active now scores
\* 30/40/30/100 and final 100, the all-zero user without last-active scores 0
\* everywhere, and reports 10 with streak 0 and response 0 gives activity -8
\* (and raw_total 0 on an empty, unverified profile).
C11_ScoringFormula ==
  sResult.status = "ok" =>
    /\ Nearest(sResult.profile_score, ProfileOver6(sUser), 6)
    /\ sResult.verification_score = 100 * VerificationPoints(sUser)
    /\ Nearest(sResult.activity_score, ActivityOver150(sUser), 150)
    /\ sResult.raw_total =
         Clamp(sResult.profile_score + sResult.verification_score
                 + sResult.activity_score, 0, 100 * 100)
    /\ sResult.final_score =
         Clamp(sResult.raw_total - sResult.decay_applied, 0, 100 * 100)
    /\ (/\ sUser.photos >= 6 /\ sUser.bio /\ sUser.interests
        /\ sUser.selfie_verified /\ sUser.id_verified
        /\ sUser.login_streak_days >= 30 /\ sUser.response_rate_pct >= 100
        /\ sUser.reports_received = 0
        /\ sUser.last_active_at = LA_At(sRef))
         => /\ sResult.profile_score = 3000 /\ sResult.verification_score = 4000
            /\ sResult.activity_score = 3000 /\ sResult.raw_total = 10000
            /\ sResult.final_score = 10000
    /\ sUser = NoUserDict
         => /\ sResult.profile_score = 0 /\ sResult.verification_score = 0
            /\ sResult.activity_score = 0 /\ sResult.raw_total = 0
            /\ sResult.decay_applied = 0 /\ sResult.final_score = 0
    /\ (/\ sUser.reports_received = 10 /\ sUser.login_streak_days = 0
        /\ sUser.response_rate_pct = 0)
         => /\ sResult.activity_score = 0 - 800
            /\ (sUser.photos = 0 /\ ~sUser.bio /\ ~sUser.interests
                /\ ~sUser.selfie_verified /\ ~sUser.id_verified)
                 => sResult.raw_total = 0

\* a result with thirds in two components: one photo (3.33) and one streak
\* day (0.67), a bio, a selfie
C11_Witness ==
  /\ sResult.status = "ok"
  /\ sUser.photos = 1 /\ sUser.bio /\ ~sUser.interests
  /\ sUser.selfie_verified /\ ~sUser.id_verified
  /\ sUser.login_streak_days = 1 /\ sUser.response_rate_pct = 1
  /\ sUser.reports_received = 1
  /\ sResult.profile_score = 833
  /\ sResult.verification_score = 2000
  /\ sResult.activity_score = 0 - 83
  /\ sResult.raw_total = 2750


\* the whole days of ref - t: the d with d days <= ref - t < d + 1 days
WholeDays(ref, t) ==
  CHOOSE d \in (0 - (MaxDays + 2)) .. (MaxDays + 2) :
    d * UnitsPerDay <= ref - t /\ ref - t < (d + 1) * UnitsPerDay

\* floor(d / 7): the w with 7 w <= d < 7 (w + 1)
FloorWeeks(d) ==
  CHOOSE w \in (0 - (MaxDays + 2)) .. (MaxDays + 2) : 7 * w <= d /\ d < 7 * (w + 1)

DecayRuleAt(la, out) ==
  /\ la.kind \in {"none", "empty"} => ~out.raised /\ out.decay = 0
  /\ la.kind = "ts" =>
       /\ ~out.raised
       /\ out.decay = 5 * FloorWeeks(WholeDays(dIn.ref, la.t)) * Scale

\* C10: apply_inactivity_decay returns decay 0 when last_active_at is absent;
\* otherwise decay = 5 * floor(daysInactive / 7) with daysInactive the whole
\* days between reference time and last-active time; and of two last-active
\* times, the one with more days inactive never gets the smaller decay.
C10_DecayRule ==
  dOut # <<NoDecay, NoDecay>> =>
    /\ DecayRuleAt(dIn.a, dOut[1])
    /\ DecayRuleAt(dIn.b, dOut[2])
    /\ (dIn.a.kind = "ts" /\ dIn.b.kind = "ts"
        /\ WholeDays(dIn.ref, dIn.a.t) <= WholeDays(dIn.ref, dIn.b.t))
       => dOut[1].decay <= dOut[2].decay

\* absent last-active next to one fifteen and a half days before the reference
C10_Witness ==
  /\ dOut # <<NoDecay, NoDecay>>
  /\ dIn.a.kind = "none" /\ dOut[1].decay = 0
  /\ dIn.b.kind = "ts" /\ dIn.ref - dIn.b.t = 15 * UnitsPerDay + 1
  /\ dOut[2].decay = 10 * Scale

\* last_active_at is present and at most 7 whole days before the reference
ActiveWithin7Days ==
  /\ sUser.last_active_at.kind = "ts"
  /\ WholeDays(sRef, sUser.last_active_at.t) <= 7

\* C12: in every result the badges hold "Verified User" iff id_verified and
\* final >= 85, "Trusted Member" iff final >= 70, "Active Dater" iff final >=
\* 60 and last_active_at is present and at most 7 days back, each rule on
\* the final score by itself; a user active 15 days ago with raw total 100
\* has final 90, "Verified User" and "Trusted Member" and no "Active Dater".
C12_Badges ==
  sResult.status = "ok" =>
    /\ "Verified User" \in sResult.badges
         <=> (sUser.id_verified /\ sResult.final_score >= 85 * 100)
    /\ "Trusted Member" \in sResult.badges <=> sResult.final_score >= 70 * 100
    /\ "Active Dater" \in sResult.badges
         <=> (sResult.final_score >= 60 * 100 /\ ActiveWithin7Days)
    /\ sResult.badges \subseteq {"Verified User", "Trusted Member", "Active Dater"}
    /\ (/\ sResult.raw_total = 100 * 100
        /\ sUser.last_active_at.kind = "ts"
        /\ WholeDays(sRef, sUser.last_active_at.t) = 15)
         => /\ sResult.final_score = 90 * 100
            /\ sResult.badges = {"Verified User", "Trusted Member"}

\* scenario B: the all-maximal user last active 15 days before the reference
C12_Witness ==
  /\ sResult.status = "ok"
  /\ sResult.raw_total = 100 * 100
  /\ sUser.last_active_at.kind = "ts"
  /\ sRef - sUser.last_active_at.t \in {15 * UnitsPerDay, 15 * UnitsPerDay + 1}
  /\ sResult.decay_applied = 10 * 100
  /\ sResult.badges = {"Verified User", "Trusted Member"}

\* C14: compute_trust_score returns a result for every user dict, also for a
\* last_active_at that is a non-empty string and no timestamp, and no job
\* fails with the engine's error.
C14_EngineTotal ==
  /\ sResult.status # "raised"
  /\ \A j \in JobIds : hist[j].err # "Unrecognized ISO datetime"

\* C23: in every result of the engine decay_applied >= 0 and final_score <=
\* raw_total; when last_active_at is an instant later than the reference
\* time, decay_applied is 0 and final_score equals raw_total.
C23_NoNegativeDecay ==
  sResult.status = "ok" =>
    /\ sResult.decay_applied >= 0
    /\ sResult.final_score <= sResult.raw_total
    /\ (sUser.last_active_at.kind = "ts" /\ sUser.last_active_at.t > sRef) =>
         /\ sResult.decay_applied = 0
         /\ sResult.final_score = sResult.raw_total

====
